---- MODULE Spec2Model ----
(***************************************************************************)
(* State-machine model of the VPFS fare/match server (FareSystem/router.py, *)
(* FareSystem/lab_tms.py, FareSystem/LabTMS.py, FareSystem/fare_gen.py,     *)
(* FareSystem/auth.py, VPFS/params.py).  The modules fms, fare, team,       *)
(* fare_prob and utils are imported by these files but are not part of the  *)
(* inspected sources; the operators that stand for them are modelled from   *)
(* the written specification and are marked as such where they are defined. *)
(***************************************************************************)
EXTENDS Integers, Sequences, FiniteSets, TLC

VARIABLES
    now,            \* time.time(), an integer clock
    mutex,          \* fms.mutex: None when free, else Some(holding thread)
    teams,          \* fms.teams: dict team number -> Team
    fares,          \* fms.fares: list of Fare (Python index i is fares[i+1])
    matchState,     \* MatchController state
    matchNum,       \* fms.matchNum
    matchDuration,  \* configured duration
    matchEndTime,   \* fms.matchEndTime
    matchRunning,   \* fms.matchRunning
    claimReq,       \* the claim_fare request handled by each server thread
    posReq,         \* the whereami_update event being handled
    resp,           \* the last reply of a roster / match route
    held,           \* a fare entry a client kept from a /fares reply
    cfg,            \* the generator's module constants (set once)
    genIn,          \* generate_fare: the ledger passed in
    genOut,         \* generate_fare: what it returned
    statusReq,      \* the /match request being handled
    matchData,      \* MatchLib: _matchData
    userPc,         \* MatchLib/test.py: where the script is
    whereReq,       \* the /whereami/<team> request being handled
    rep,            \* the replenish loop of the driver
    loop,           \* generate_fare: the retry loop
    authCall        \* authenticate: a call and what it returned

vars == <<now, mutex, teams, fares, matchState, matchNum, matchDuration,
          matchEndTime, matchRunning, claimReq, posReq, resp, held,
          cfg, genIn, genOut, statusReq, matchData, userPc, whereReq,
          rep, loop, authCall>>

----------------------------------------------------------------------------
(* Bounds of the model *)

\* number of entries of fare_gen.points the model draws from
NumPoints == 2
\* the ledger is not extended beyond this length
MaxFares == 2
\* the same, where several claim_fare threads run
MaxClaimFares == 1
\* the clock stops here
MaxTime == 3
\* concurrent claim_fare request threads
NumThreads == 2
\* team numbers 1..MaxTeam are used by the requests
MaxTeam == 2
\* longest whereami_update batch
MaxBatch == 2
\* ledgers handed to generate_fare on its own hold at most this many fares
MaxGenLedger == 1
\* and the number of spawn points generate_fare on its own draws from
GenPoints == 4
\* the largest target_count replenish is called with
MaxTarget == 2
\* the number of spawn points the ledger of SpecLedger is generated from
LedgerPoints == 4
\* ledgers whose balancing multipliers are computed hold at most this many
\* fares
MaxMulLedger == 3

----------------------------------------------------------------------------
(* Program constants *)

\* Python's None; an optional value v is the one-element sequence <<v>>
None == <<>>
Some(v) == <<v>>

\* params.py; the mode a deployment runs in is one of the module constants
\* held in cfg
MODE == cfg.mode
OperatingMode_LAB == [enum |-> TRUE, value |-> "Lab"]
OperatingMode_HOME == [enum |-> TRUE, value |-> "Home"]
OperatingMode_MATCH == [enum |-> TRUE, value |-> "Match"]

FareType == {"NORMAL", "SUBSIDIZED", "SENIOR"}

\* fare_gen.py: DIST_MIN = 0.5 as a fraction, DIST_MAX = 999
DIST_MIN_NUM == 1
DIST_MIN_DEN == 2
DIST_MAX == 999
TARGET_FARES == 5
\* the retry budget of generate_fare
GEN_TRIES == 10
\* VPFS/Faregen.py, lengths in hundredths: DIST_MIN = 2.5, DIST_MAX = 999
VPFS_DIST_MIN == 250
VPFS_DIST_MAX == 99900
VPFS_TARGET_FARES == 8

\* FareProbability(normal, subsidized, senior); the no-argument default is
\* taken to give every type a positive weight
FareProbability(n, s, r) == [NORMAL |-> n, SUBSIDIZED |-> s, SENIOR |-> r]
FareProbabilityDefault == FareProbability(1, 1, 1)

SpawnPoint(x, y, b) == [point |-> <<x, y>>, biases |-> b]

\* fare_gen.py: the spawn point table
points ==
    << SpawnPoint(0, 0, FareProbability(0, 0, 1)),
       SpawnPoint(1, 1, FareProbability(0, 1, 1)),
       SpawnPoint(2, 2, FareProbability(0, 1, 1)),
       SpawnPoint(3, 3, FareProbabilityDefault),
       SpawnPoint(4, 4, FareProbabilityDefault),
       SpawnPoint(5, 5, FareProbabilityDefault),
       SpawnPoint(6, 6, FareProbabilityDefault),
       SpawnPoint(7, 7, FareProbabilityDefault),
       SpawnPoint(8, 8, FareProbabilityDefault),
       SpawnPoint(9, 9, FareProbabilityDefault),
       SpawnPoint(10, 10, FareProbabilityDefault),
       SpawnPoint(11, 11, FareProbabilityDefault) >>

\* VPFS/Faregen.py: the spawn point table, coordinates in hundredths
points_vpfs ==
    << SpawnPoint(42, 42, FareProbabilityDefault),
       SpawnPoint(177, 29, FareProbabilityDefault),
       SpawnPoint(380, 29, FareProbabilityDefault),
       SpawnPoint(520, 29, FareProbabilityDefault),
       SpawnPoint(174, 135, FareProbabilityDefault),
       SpawnPoint(380, 135, FareProbabilityDefault),
       SpawnPoint(525, 135, FareProbabilityDefault),
       SpawnPoint(100, 296, FareProbabilityDefault),
       SpawnPoint(525, 233, FareProbabilityDefault),
       SpawnPoint(525, 293, FareProbabilityDefault),
       SpawnPoint(113, 459, FareProbabilityDefault),
       SpawnPoint(246, 449, FareProbabilityDefault),
       SpawnPoint(376, 434, FareProbabilityDefault),
       SpawnPoint(525, 475, FareProbabilityDefault),
       SpawnPoint(585, 190, FareProbabilityDefault),
       SpawnPoint(593, 420, FareProbabilityDefault),
       SpawnPoint(135, 210, FareProbabilityDefault),
       SpawnPoint(452, 353, FareProbabilityDefault),
       SpawnPoint(29, 200, FareProbabilityDefault),
       SpawnPoint(29, 280, FareProbabilityDefault),
       SpawnPoint(29, 410, FareProbabilityDefault) >>

Min2(a, b) == IF a < b THEN a ELSE b

\* the constants of FareSystem/fare_gen.py, with the first n spawn points
FareSystemCfg(n) ==
    [points |-> {points[i] : i \in 1..Min2(n, Len(points))},
     distMin |-> <<DIST_MIN_NUM, DIST_MIN_DEN>>, distMax |-> DIST_MAX,
     target |-> TARGET_FARES, mode |-> OperatingMode_LAB]

\* the constants of VPFS/Faregen.py, with the first n spawn points
VpfsCfg(n) ==
    [points |-> {points_vpfs[i] : i \in 1..Min2(n, Len(points_vpfs))},
     distMin |-> <<VPFS_DIST_MIN, 1>>, distMax |-> VPFS_DIST_MAX,
     target |-> VPFS_TARGET_FARES, mode |-> OperatingMode_LAB]

----------------------------------------------------------------------------
(* fare.py, utils.py, fare_prob.py (not among the inspected sources) *)

\* Fare(src, dest, type): a new fare is active and unclaimed.  serial is a
\* history field: the number of fares created before this one, set when the
\* fare enters the ledger; no operation of the program reads it
Fare(src, dest, type) ==
    [src |-> src, dest |-> dest, type |-> type, isActive |-> TRUE, claimedBy |-> None,
     serial |-> -1]

\* Point.dist squared (Euclidean)
DistSq(p, q) == (p[1] - q[1]) * (p[1] - q[1]) + (p[2] - q[2]) * (p[2] - q[2])

\* FareProbability.merge: the per-type sum of the two weights
Merge(a, b) == [t \in FareType |-> a[t] + b[t]]

\* FareProbability.roll: any type whose weight is positive can be drawn; with
\* no positive weight the draw is unconstrained
Roll(prob) ==
    IF \E t \in FareType : prob[t][1] > 0
    THEN {t \in FareType : prob[t][1] > 0}
    ELSE FareType

----------------------------------------------------------------------------
(* fare_gen.py: generate_fare *)

\* targetProbabilities: 1.5 / TARGET_FARES twice, NORMAL the rest
targetProbabilities ==
    [SUBSIDIZED |-> <<3, 2 * cfg.target>>, SENIOR |-> <<3, 2 * cfg.target>>,
     NORMAL |-> <<2 * cfg.target - 6, 2 * cfg.target>>]

ActiveIdx(fs) == {i \in 1..Len(fs) : fs[i].isActive}

\* existing: the endpoints of the active fares
ExistingPoints(fs) == {fs[i].src : i \in ActiveIdx(fs)} \cup {fs[i].dest : i \in ActiveIdx(fs)}

\* quantities[type]: active fares of each type
Quantities(fs) == [t \in FareType |-> Cardinality({i \in ActiveIdx(fs) : fs[i].type = t})]

Max2(a, b) == IF a > b THEN a ELSE b

\* fractions <<n, d>> with d > 0
FracLess(a, b) == a[1] * b[2] < b[1] * a[2]
FracClamp(x, lo, hi) == IF FracLess(x, lo) THEN lo ELSE IF FracLess(hi, x) THEN hi ELSE x

\* curr_ratio as it would be relative to the target quantity
CurrRatio_of_target(fs, t) ==
    IF Quantities(fs)[t] = 0 THEN <<1, 100>>
    ELSE <<Quantities(fs)[t], Max2(cfg.target, 1)>>

\* curr_ratio: the type's share of the active fares, 0.01 when that is zero
CurrRatio(fs, t) ==
    IF Quantities(fs)[t] = 0 THEN <<1, 100>>
    ELSE <<Quantities(fs)[t], Max2(Cardinality(ActiveIdx(fs)), 1)>>

\* prob_mul[type] = min(max(target / curr_ratio, 1/4), 10)
ProbMul(fs, t) ==
    FracClamp(<<targetProbabilities[t][1] * CurrRatio(fs, t)[2],
                targetProbabilities[t][2] * CurrRatio(fs, t)[1]>>,
              <<1, 4>>, <<10, 1>>)

\* d2 > m * m, for a squared length d2 and m > 0, without forming m * m
SqGreater(d2, m) == (d2 \div m) > m \/ ((d2 \div m) = m /\ (d2 % m) > 0)

\* the rejection test as it would be without the test of the second endpoint
\* against the endpoints in use
PairAccepted_dest_unchecked(fs, p1, p2) ==
    ~ ( \/ p1.point = p2.point
        \/ SqGreater(DistSq(p1.point, p2.point), cfg.distMax)
        \/ DistSq(p1.point, p2.point) * cfg.distMin[2] * cfg.distMin[2]
              < cfg.distMin[1] * cfg.distMin[1]
        \/ p1.point \in ExistingPoints(fs) )

\* the rejection test of one candidate pair; FALSE: the pair is rejected
PairAccepted(fs, p1, p2) ==
    ~ ( \/ p1.point = p2.point
        \/ SqGreater(DistSq(p1.point, p2.point), cfg.distMax)
        \/ DistSq(p1.point, p2.point) * cfg.distMin[2] * cfg.distMin[2]
              < cfg.distMin[1] * cfg.distMin[1]
        \/ p1.point \in ExistingPoints(fs)
        \/ p2.point \in ExistingPoints(fs) )

\* the merged endpoint biases, each weight multiplied by prob_mul
Reweighted(fs, p1, p2) ==
    [t \in FareType |-> <<Merge(p1.biases, p2.biases)[t] * ProbMul(fs, t)[1], ProbMul(fs, t)[2]>>]

\* the fares an accepted draw can produce
FaresOfPair(fs, p1, p2) == {Some(Fare(p1.point, p2.point, t)) : t \in Roll(Reweighted(fs, p1, p2))}

\* what the retry loop can return with k draws left: the fare of an accepted
\* pair (produced), or one more try after a rejected pair, or None when no
\* draw is left
RECURSIVE TryPairs(_, _, _)
TryPairs(produced, canReject, k) ==
    IF k = 0 THEN {None}
    ELSE produced \cup (IF canReject THEN TryPairs(produced, canReject, k - 1) ELSE {})

\* every value generate_fare(existingFares) can return
generate_fare(existingFares) ==
    LET draws == cfg.points \X cfg.points
        accepted == {pp \in draws : PairAccepted(existingFares, pp[1], pp[2])}
    IN  TryPairs(UNION {FaresOfPair(existingFares, pp[1], pp[2]) : pp \in accepted},
                 accepted # draws, GEN_TRIES)

----------------------------------------------------------------------------
(* auth.py *)

\* _authCodes
authCodes == [c \in {"asdf"} |-> 7]

\* str.lower() on the mode strings
Lower(s) == CASE s = "Lab" -> "lab" [] s = "Home" -> "home" [] s = "Match" -> "match" [] OTHER -> s

\* int(code): None stands for ValueError
ParseInt(code) ==
    CASE code = "1" -> Some(1) [] code = "2" -> Some(2) [] code = "3" -> Some(3)
      [] code = "7" -> Some(7) [] code = "-1" -> Some(-1) [] OTHER -> None

\* str(n) for the team numbers of the model
Str(n) == CASE n = 1 -> "1" [] n = 2 -> "2" [] n = 3 -> "3" [] n = 7 -> "7" [] OTHER -> "-1"

\* authenticate as it would be if every mode looked the code up in the table
authenticate_table_only(code, mode) ==
    IF code \in DOMAIN authCodes THEN authCodes[code] ELSE -1

\* authenticate(code, mode); mode is an OperatingMode member (enum = TRUE) or
\* a plain string
authenticate(code, mode) ==
    LET is_match == \/ (mode.enum /\ mode = OperatingMode_MATCH)
                    \/ (Lower(mode.value) = "Match")
    IN  IF is_match
        THEN (IF code \in DOMAIN authCodes THEN authCodes[code] ELSE -1)
        ELSE (IF ParseInt(code) = None THEN -1 ELSE ParseInt(code)[1])

----------------------------------------------------------------------------
(* The server state *)

TeamNums == 1..MaxTeam

\* MatchLib: _team, the team number given to init_matchlib
client_team == MaxTeam
Threads == 1..NumThreads

\* the auth query values of the requests
Codes == {Str(n) : n \in TeamNums} \cup {"", "asdf"}

\* positions sent by the positioning system
Coords == {<<1, 2>>, <<0, 0>>}

\* Team(number) (team.py): a new team holds no fare and sits at the origin
Team(number) ==
    [number |-> number, money |-> 0, karma |-> 0, currentFare |-> None,
     pos |-> <<0, 0>>, lastPosUpdate |-> 0, lastStatus |-> 0]

NoReply == [route |-> "none", status |-> 0, err |-> "", from |-> ""]
Reply(route, status, err) == [route |-> route, status |-> status, err |-> err, from |-> matchState]

\* raced is a history field: another request for the same index was waiting
\* for the lock when this one took it
IdleClaim ==
    [pc |-> "idle", team |-> -1, idx |-> 0, err |-> "", success |-> FALSE, message |-> "",
     raced |-> FALSE]
IdlePos == [pc |-> "idle", batch |-> <<>>, i |-> 1, exc |-> ""]
IdleStatus == [pc |-> "idle", team |-> -1, exc |-> ""]
IdleWhere == [pc |-> "idle", team |-> -1]
IdleRep == [pc |-> "idle", calls |-> 0, failed |-> FALSE]
IdleLoop == [pc |-> "idle", ovf |-> 0, success |-> FALSE, pair |-> None]

\* nothing in flight: no /match request, a client that has not polled yet,
\* the driver and the generator outside their loops
Quiet ==
    /\ statusReq = IdleStatus
    /\ matchData = None
    /\ userPc = "wait_for_connection"
    /\ whereReq = IdleWhere
    /\ rep = IdleRep
    /\ loop = IdleLoop

\* the state after the modules are loaded, with the module constants c
InitServer(c) ==
    /\ now = 1
    /\ mutex = None
    /\ teams = <<>>
    /\ fares = <<>>
    /\ matchState = "UNCONFIGURED"
    /\ matchNum = 0
    /\ matchDuration = 0
    /\ matchEndTime = 0
    /\ matchRunning = FALSE
    /\ claimReq = [r \in Threads |-> IdleClaim]
    /\ posReq = IdlePos
    /\ resp = NoReply
    /\ held = None
    /\ cfg = c
    /\ genIn = <<>>
    /\ genOut = None
    /\ Quiet

InitWith(c) == InitServer(c) /\ authCall = None

Init == InitWith(FareSystemCfg(NumPoints))

matchVars == <<matchState, matchNum, matchDuration, matchEndTime, matchRunning>>
genVars == <<cfg, genIn, genOut>>
clientVars == <<statusReq, matchData, userPc, whereReq>>
loopVars == <<rep, loop>>

\* the dict with one key removed / one key set
DictDel(d, k) == [x \in (DOMAIN d) \ {k} |-> d[x]]
DictSet(d, k, v) == [x \in (DOMAIN d) \cup {k} |-> IF x = k THEN v ELSE d[x]]

\* time.time() moves on
AdvanceTime ==
    /\ now < MaxTime
    /\ now' = now + 1
    /\ UNCHANGED <<mutex, teams, fares, matchVars, claimReq, posReq, resp, held, genVars, clientVars, loopVars, authCall>>

----------------------------------------------------------------------------
(* lab_tms.py: the roster routes *)

\* lab_add_team as it would be without the membership test
lab_add_team_overwrite(team) ==
    /\ mutex = None
    /\ IF MODE # OperatingMode_LAB
       THEN /\ resp' = Reply("AddTeam", 403, "")
            /\ UNCHANGED teams
       ELSE /\ teams' = DictSet(teams, team, Team(team))
            /\ resp' = Reply("AddTeam", 200, "")
    /\ UNCHANGED <<now, mutex, fares, matchVars, claimReq, posReq, held, genVars, clientVars, loopVars, authCall>>

lab_add_team(team) ==
    /\ mutex = None
    /\ IF MODE # OperatingMode_LAB
       THEN /\ resp' = Reply("AddTeam", 403, "")
            /\ UNCHANGED teams
       ELSE IF team \in DOMAIN teams
       THEN /\ resp' = Reply("AddTeam", 409, "")
            /\ UNCHANGED teams
       ELSE /\ teams' = DictSet(teams, team, Team(team))
            /\ resp' = Reply("AddTeam", 200, "")
    /\ UNCHANGED <<now, mutex, fares, matchVars, claimReq, posReq, held, genVars, clientVars, loopVars, authCall>>

lab_remove_team(team) ==
    /\ mutex = None
    /\ IF MODE # OperatingMode_LAB
       THEN /\ resp' = Reply("RemoveTeam", 403, "")
            /\ UNCHANGED teams
       ELSE IF team \notin DOMAIN teams
       THEN /\ resp' = Reply("RemoveTeam", 404, "")
            /\ UNCHANGED teams
       ELSE /\ teams' = DictDel(teams, team)
            /\ resp' = Reply("RemoveTeam", 200, "")
    /\ UNCHANGED <<now, mutex, fares, matchVars, claimReq, posReq, held, genVars, clientVars, loopVars, authCall>>

----------------------------------------------------------------------------
(* fms.py (not among the inspected sources): the match controller, after   *)
(* the written specification                                               *)

Match == [state |-> matchState, num |-> matchNum, duration |-> matchDuration,
          endTime |-> matchEndTime, running |-> matchRunning]

SetMatch(m) ==
    /\ matchState' = m.state
    /\ matchNum' = m.num
    /\ matchDuration' = m.duration
    /\ matchEndTime' = m.endTime
    /\ matchRunning' = m.running

\* config_match as it would be if it kept the timing of the previous match
fms_config_match_keep_timing(m, number, duration) ==
    [state |-> "CONFIGURED", num |-> number, duration |-> duration,
     endTime |-> m.endTime, running |-> m.running]

\* fms.config_match: valid from any state, resets the timing
fms_config_match(m, number, duration) ==
    [state |-> "CONFIGURED", num |-> number, duration |-> duration,
     endTime |-> 0, running |-> FALSE]

\* fms.start_match: an error unless CONFIGURED
fms_start_error(m) == IF m.state = "CONFIGURED" THEN "" ELSE "match not configured"

\* start_match as it would be if a running match could be started again
fms_start_match_restart(m, t) ==
    IF m.state \in {"CONFIGURED", "RUNNING"}
    THEN [m EXCEPT !.state = "RUNNING", !.endTime = t + m.duration, !.running = TRUE]
    ELSE m

\* fms.start_match at time t: end time = t + duration
fms_start_match(m, t) ==
    IF m.state = "CONFIGURED"
    THEN [m EXCEPT !.state = "RUNNING", !.endTime = t + m.duration, !.running = TRUE]
    ELSE m

\* fms.cancel_match: from CONFIGURED or RUNNING the match is over
fms_cancel_match(m) ==
    IF m.state \in {"CONFIGURED", "RUNNING"}
    THEN [m EXCEPT !.state = "ENDED", !.endTime = 0, !.running = FALSE]
    ELSE m

\* the timer check of one tick
fms_tick_match(m, t) ==
    IF m.state = "RUNNING" /\ t >= m.endTime THEN [m EXCEPT !.state = "ENDED"] ELSE m

----------------------------------------------------------------------------
(* lab_tms.py and LabTMS.py: the match routes *)

\* a JSON field of the request body: absent, an integer, or a value int() rejects
Missing == [kind |-> "missing", val |-> 0]
Bad == [kind |-> "bad", val |-> 0]
IntField(n) == [kind |-> "int", val |-> n]

\* int(data.get(key, 0)): None stands for the exception
IntOrDefault(field) ==
    CASE field.kind = "missing" -> Some(0)
      [] field.kind = "int" -> Some(field.val)
      [] OTHER -> None

\* the request bodies of /Lab/ConfigMatch
Payloads == [number : {Missing, Bad, IntField(7)}, duration : {Missing, Bad, IntField(1), IntField(2)}]

\* lab_config_match as it would be with the two arguments exchanged
lab_config_match_swapped(data) ==
    /\ mutex = None
    /\ IF MODE # OperatingMode_LAB
       THEN /\ resp' = Reply("ConfigMatch", 403, "")
            /\ UNCHANGED matchVars
       ELSE IF IntOrDefault(data.number) = None \/ IntOrDefault(data.duration) = None
       THEN /\ resp' = Reply("ConfigMatch", 400, "")
            /\ UNCHANGED matchVars
       ELSE /\ SetMatch(fms_config_match(Match, IntOrDefault(data.duration)[1],
                                         IntOrDefault(data.number)[1]))
            /\ resp' = Reply("ConfigMatch", 200, "")
    /\ UNCHANGED <<now, mutex, teams, fares, claimReq, posReq, held, genVars, clientVars, loopVars, authCall>>

lab_config_match(data) ==
    /\ mutex = None
    /\ IF MODE # OperatingMode_LAB
       THEN /\ resp' = Reply("ConfigMatch", 403, "")
            /\ UNCHANGED matchVars
       ELSE IF IntOrDefault(data.number) = None \/ IntOrDefault(data.duration) = None
       THEN /\ resp' = Reply("ConfigMatch", 400, "")
            /\ UNCHANGED matchVars
       ELSE /\ SetMatch(fms_config_match(Match, IntOrDefault(data.number)[1],
                                         IntOrDefault(data.duration)[1]))
            /\ resp' = Reply("ConfigMatch", 200, "")
    /\ UNCHANGED <<now, mutex, teams, fares, claimReq, posReq, held, genVars, clientVars, loopVars, authCall>>

lab_start_match ==
    /\ mutex = None
    /\ IF MODE # OperatingMode_LAB
       THEN /\ resp' = Reply("StartMatch", 403, "")
            /\ UNCHANGED matchVars
       ELSE /\ SetMatch(fms_start_match(Match, now))
            /\ resp' = Reply("StartMatch", 200, fms_start_error(Match))
    /\ UNCHANGED <<now, mutex, teams, fares, claimReq, posReq, held, genVars, clientVars, loopVars, authCall>>

\* LabTMS.py: the older lab module, without the mode test
serve_add_team(team) ==
    /\ mutex = None
    /\ IF team \in DOMAIN teams
       THEN /\ resp' = Reply("AddTeam", 200, "Already have team")
            /\ UNCHANGED teams
       ELSE /\ teams' = DictSet(teams, team, Team(team))
            /\ resp' = Reply("AddTeam", 200, "Added team")
    /\ UNCHANGED <<now, mutex, fares, matchVars, claimReq, posReq, held, genVars, clientVars, loopVars, authCall>>

serve_remove_team(team) ==
    /\ mutex = None
    /\ IF team \in DOMAIN teams
       THEN /\ teams' = DictDel(teams, team)
            /\ resp' = Reply("RemoveTeam", 200, "Removed team")
       ELSE /\ resp' = Reply("RemoveTeam", 200, "No team to remove")
            /\ UNCHANGED teams
    /\ UNCHANGED <<now, mutex, fares, matchVars, claimReq, posReq, held, genVars, clientVars, loopVars, authCall>>

\* request.json["number"], request.json["duration"]: an absent key raises
\* before anything is changed; the values are passed on as they are
serve_config_match(data) ==
    /\ mutex = None
    /\ data.number.kind # "bad" /\ data.duration.kind # "bad"
    /\ IF data.number.kind = "missing" \/ data.duration.kind = "missing"
       THEN /\ resp' = Reply("ConfigMatch", 500, "KeyError")
            /\ UNCHANGED matchVars
       ELSE /\ SetMatch(fms_config_match(fms_cancel_match(Match), data.number.val,
                                         data.duration.val))
            /\ resp' = Reply("ConfigMatch", 200, "")
    /\ UNCHANGED <<now, mutex, teams, fares, claimReq, posReq, held, genVars, clientVars, loopVars, authCall>>

serve_start_match ==
    /\ mutex = None
    /\ SetMatch(fms_start_match(Match, now))
    /\ resp' = Reply("StartMatch", 200, fms_start_error(Match))
    /\ UNCHANGED <<now, mutex, teams, fares, claimReq, posReq, held, genVars, clientVars, loopVars, authCall>>

----------------------------------------------------------------------------
(* fms.py (not among the inspected sources): the periodic driver, after the *)
(* written specification                                                    *)

\* FareLedger.expire: the fares in `lapsed` become inactive
Expire(fs, lapsed) ==
    [i \in 1..Len(fs) |-> IF i \in lapsed THEN [fs[i] EXCEPT !.isActive = FALSE] ELSE fs[i]]

\* a ledger that gave the place of a retired fare to the next generated fare
AppendFare_reuse(fs, f) ==
    IF \E i \in 1..Len(fs) : ~fs[i].isActive
    THEN LET i == CHOOSE k \in 1..Len(fs) : ~fs[k].isActive
         IN  [fs EXCEPT ![i] = [f EXCEPT !.serial = i - 1]]
    ELSE Append(fs, [f EXCEPT !.serial = Len(fs)])

\* a generated fare enters the ledger at the end
AppendFare(fs, f) == Append(fs, [f EXCEPT !.serial = Len(fs)])

\* replenish as it would be if it went on until the active fares exceeded
\* the target
RECURSIVE Replenish_over(_, _, _)
Replenish_over(fs, target, cap) ==
    IF Cardinality(ActiveIdx(fs)) > target \/ Len(fs) >= cap
    THEN {fs}
    ELSE UNION {IF g = None THEN {fs} ELSE Replenish_over(AppendFare(fs, g[1]), target, cap)
                : g \in generate_fare(fs)}

\* FareLedger.replenish: every ledger the loop can end with.  The loop stops
\* when the target is met or generate_fare returns None; in the model it
\* also stops at a ledger of `cap` fares
RECURSIVE Replenish(_, _, _)
Replenish(fs, target, cap) ==
    IF Cardinality(ActiveIdx(fs)) >= target \/ Len(fs) >= cap
    THEN {fs}
    ELSE UNION {IF g = None THEN {fs} ELSE Replenish(AppendFare(fs, g[1]), target, cap)
                : g \in generate_fare(fs)}

\* a driver that left the ledger alone unless a match is running
PeriodicTick_match_only(cap) ==
    /\ mutex = None
    /\ SetMatch(fms_tick_match(Match, now))
    /\ IF matchState = "RUNNING"
       THEN \E lapsed \in SUBSET ActiveIdx(fares) :
               fares' \in Replenish(Expire(fares, lapsed), cfg.target, cap)
       ELSE UNCHANGED fares
    /\ UNCHANGED <<now, mutex, teams, claimReq, posReq, resp, held, genVars, clientVars, loopVars, authCall>>

\* fms.periodic, one tick under the lock: the timer, expire, replenish
PeriodicTick(cap) ==
    /\ mutex = None
    /\ SetMatch(fms_tick_match(Match, now))
    /\ \E lapsed \in SUBSET ActiveIdx(fares) :
          fares' \in Replenish(Expire(fares, lapsed), cfg.target, cap)
    /\ UNCHANGED <<now, mutex, teams, claimReq, posReq, resp, held, genVars, clientVars, loopVars, authCall>>

----------------------------------------------------------------------------
(* The driver's replenish loop and generate_fare's retry loop, step by step *)

\* the tick has run the timer and expire; replenish(target_count) starts
replenish_begin ==
    /\ rep.pc \in {"idle", "done"}
    /\ Len(fares) < MaxFares
    /\ \E lapsed \in SUBSET ActiveIdx(fares) : fares' = Expire(fares, lapsed)
    /\ rep' = [pc |-> "test", calls |-> 0, failed |-> FALSE]
    /\ UNCHANGED <<now, mutex, teams, matchVars, claimReq, posReq, resp, held, genVars,
                   clientVars, loop, authCall>>

\* while the number of active fares is below target_count: call generate_fare
replenish_test ==
    /\ rep.pc = "test"
    /\ IF Cardinality(ActiveIdx(fares)) >= cfg.target
       THEN /\ rep' = [rep EXCEPT !.pc = "done"]
            /\ UNCHANGED <<genIn, genOut, loop>>
       ELSE /\ rep' = [rep EXCEPT !.pc = "call", !.calls = rep.calls + 1]
            /\ genIn' = fares
            /\ genOut' = None
            /\ loop' = [pc |-> "try", ovf |-> 0, success |-> FALSE, pair |-> None]
    /\ UNCHANGED <<now, mutex, teams, fares, matchVars, claimReq, posReq, resp, held, cfg,
                   clientVars, authCall>>

\* generate_fare without the budget in the loop condition
generate_fare_try_unbounded ==
    /\ loop.pc = "try"
    /\ ~loop.success
    /\ \E p1 \in cfg.points, p2 \in cfg.points :
          loop' = [loop EXCEPT !.ovf = loop.ovf + 1, !.pair = Some(<<p1, p2>>),
                               !.success = PairAccepted(genIn, p1, p2)]
    /\ UNCHANGED <<now, mutex, teams, fares, matchVars, claimReq, posReq, resp, held, genVars,
                   clientVars, rep, authCall>>

\* while ovf < 10 and not success: one draw of two points and its test
generate_fare_try ==
    /\ loop.pc = "try"
    /\ loop.ovf < GEN_TRIES /\ ~loop.success
    /\ \E p1 \in cfg.points, p2 \in cfg.points :
          loop' = [loop EXCEPT !.ovf = loop.ovf + 1, !.pair = Some(<<p1, p2>>),
                               !.success = PairAccepted(genIn, p1, p2)]
    /\ UNCHANGED <<now, mutex, teams, fares, matchVars, claimReq, posReq, resp, held, genVars,
                   clientVars, rep, authCall>>

\* after the loop: the fare of the accepted pair, or None
generate_fare_return ==
    /\ loop.pc = "try"
    /\ ~(loop.ovf < GEN_TRIES /\ ~loop.success)
    /\ IF loop.success
       THEN \E f \in FaresOfPair(genIn, loop.pair[1][1], loop.pair[1][2]) : genOut' = Some(f)
       ELSE genOut' = Some(None)
    /\ loop' = [loop EXCEPT !.pc = "done"]
    /\ UNCHANGED <<now, mutex, teams, fares, matchVars, claimReq, posReq, resp, held, cfg, genIn,
                   clientVars, rep, authCall>>

\* replenish as it would be if it went on after a failed generation
replenish_take_retry ==
    /\ rep.pc = "call" /\ loop.pc = "done"
    /\ IF genOut[1] = None
       THEN /\ rep' = [rep EXCEPT !.pc = "test", !.failed = TRUE]
            /\ UNCHANGED fares
       ELSE /\ fares' = AppendFare(fares, genOut[1][1])
            /\ rep' = [rep EXCEPT !.pc = "test"]
    /\ loop' = IdleLoop
    /\ UNCHANGED <<now, mutex, teams, matchVars, claimReq, posReq, resp, held, genVars,
                   clientVars, authCall>>

\* replenish takes what generate_fare returned: a fare is appended and the
\* loop goes on; None ends the loop for this tick
replenish_take ==
    /\ rep.pc = "call" /\ loop.pc = "done"
    /\ IF genOut[1] = None
       THEN /\ rep' = [rep EXCEPT !.pc = "done", !.failed = TRUE]
            /\ UNCHANGED fares
       ELSE /\ fares' = AppendFare(fares, genOut[1][1])
            /\ rep' = [rep EXCEPT !.pc = "test"]
    /\ loop' = IdleLoop
    /\ UNCHANGED <<now, mutex, teams, matchVars, claimReq, posReq, resp, held, genVars,
                   clientVars, authCall>>

----------------------------------------------------------------------------
(* fare.py (not among the inspected sources): Fare.claim_fare and           *)
(* Fare.to_json_dict, after the written specification                       *)

\* the error Fare.claim_fare returns, "" for none
Fare_claim_error(fare) ==
    IF ~fare.isActive THEN "Fare not active"
    ELSE IF fare.claimedBy # None THEN "Fare already claimed"
    ELSE ""

\* the assignments of a successful Fare.claim_fare(idx, team)
Fare_claim_fares(fs, idx, team) == [fs EXCEPT ![idx + 1].claimedBy = Some(team)]
Fare_claim_teams(ts, idx, team) ==
    IF team \in DOMAIN ts THEN [ts EXCEPT ![team].currentFare = Some(idx)] ELSE ts

\* Fare.to_json_dict(idx, extended); serial is carried along as history
to_json_dict(fare, idx, extended) ==
    [id |-> idx, src |-> fare.src, dest |-> fare.dest, type |-> fare.type,
     serial |-> fare.serial,
     active |-> IF extended THEN Some(fare.isActive) ELSE None,
     claimed |-> IF extended THEN Some(fare.claimedBy # None) ELSE None]

----------------------------------------------------------------------------
(* router.py: claim_fare, one request per server thread *)

\* authenticate(request.args.get("auth", default=""), MODE), before the lock
claim_fare_begin(r, code, idx) ==
    /\ claimReq[r].pc \in {"idle", "done"}
    /\ claimReq' = [claimReq EXCEPT ![r] =
                       [IdleClaim EXCEPT !.pc = "wait", !.team = authenticate(code, MODE),
                                         !.idx = idx]]
    /\ UNCHANGED <<now, mutex, teams, fares, matchVars, posReq, resp, held, genVars, clientVars, loopVars, authCall>>

\* claim_fare_lock as it would be without the lock: the body is entered at once
claim_fare_lock_unguarded(r) ==
    /\ claimReq[r].pc = "wait"
    /\ mutex' = Some(r)
    /\ claimReq' = [claimReq EXCEPT ![r].pc = "locked",
                                    ![r].raced = \E o \in Threads \ {r} :
                                                     /\ claimReq[o].pc = "wait"
                                                     /\ claimReq[o].idx = claimReq[r].idx]
    /\ UNCHANGED <<now, teams, fares, matchVars, posReq, resp, held, genVars, clientVars, loopVars, authCall>>

\* with fms.mutex:
claim_fare_lock(r) ==
    /\ claimReq[r].pc = "wait"
    /\ mutex = None
    /\ mutex' = Some(r)
    /\ claimReq' = [claimReq EXCEPT ![r].pc = "locked",
                                    ![r].raced = \E o \in Threads \ {r} :
                                                     /\ claimReq[o].pc = "wait"
                                                     /\ claimReq[o].idx = claimReq[r].idx]
    /\ UNCHANGED <<now, teams, fares, matchVars, posReq, resp, held, genVars, clientVars, loopVars, authCall>>

\* ClaimError as it would be if the handler did not look at the error that
\* Fare.claim_fare returns
ClaimError_ignored(team, idx) ==
    IF team = -1 THEN "Authentication failed"
    ELSE IF team \in DOMAIN teams
    THEN (IF idx < Len(fares) THEN "" ELSE "Could not find fare")
    ELSE "Team not in this match"

\* ClaimError as it would be without the test of the roster
ClaimError_roster_unchecked(team, idx) ==
    IF team = -1 THEN "Authentication failed"
    ELSE IF idx < Len(fares) THEN Fare_claim_error(fares[idx + 1])
    ELSE "Could not find fare"

\* the tests of the handler and of Fare.claim_fare: the message, "" when the
\* claim goes through
ClaimError(team, idx) ==
    IF team = -1 THEN "Authentication failed"
    ELSE IF team \in DOMAIN teams
    THEN (IF idx < Len(fares) THEN Fare_claim_error(fares[idx + 1])
          ELSE "Could not find fare")
    ELSE "Team not in this match"

claim_fare_check(r) ==
    /\ claimReq[r].pc = "locked"
    /\ claimReq' = [claimReq EXCEPT ![r].pc = "checked",
                                    ![r].err = ClaimError(claimReq[r].team, claimReq[r].idx)]
    /\ UNCHANGED <<now, mutex, teams, fares, matchVars, posReq, resp, held, genVars, clientVars, loopVars, authCall>>

\* the assignments of a claim that goes through, the reply, the lock released
claim_fare_exit(r) ==
    /\ claimReq[r].pc = "checked"
    /\ IF claimReq[r].err = ""
       THEN /\ fares' = Fare_claim_fares(fares, claimReq[r].idx, claimReq[r].team)
            /\ teams' = Fare_claim_teams(teams, claimReq[r].idx, claimReq[r].team)
       ELSE UNCHANGED <<fares, teams>>
    /\ claimReq' = [claimReq EXCEPT ![r].pc = "done",
                                    ![r].success = (claimReq[r].err = ""),
                                    ![r].message = claimReq[r].err]
    /\ mutex' = None
    /\ UNCHANGED <<now, matchVars, posReq, resp, held, genVars, clientVars, loopVars, authCall>>

----------------------------------------------------------------------------
(* router.py: serve_fares *)

\* enumerate(fms.fares)
Enumerate(fs) == [i \in 1..Len(fs) |-> [idx |-> i - 1, fare |-> fs[i]]]

\* serve_fares as it would be if it numbered the entries of the reply
serve_fares_renumbered(extended, include_expired) ==
    LET kept == SelectSeq(Enumerate(fares), LAMBDA e : e.fare.isActive \/ include_expired)
    IN  [j \in 1..Len(kept) |-> to_json_dict(kept[j].fare, j - 1, extended)]

serve_fares(extended, include_expired) ==
    LET kept == SelectSeq(Enumerate(fares), LAMBDA e : e.fare.isActive \/ include_expired)
    IN  [j \in 1..Len(kept) |-> to_json_dict(kept[j].fare, kept[j].idx, extended)]

\* GET /fares?all=..., and a client that keeps one entry of the reply
serve_fares_normal(all) ==
    /\ mutex = None
    /\ LET reply == serve_fares(FALSE, all)
       IN  IF reply = <<>> THEN held' = None
           ELSE \E j \in 1..Len(reply) : held' = Some(reply[j])
    /\ UNCHANGED <<now, mutex, teams, fares, matchVars, claimReq, posReq, resp, genVars, clientVars, loopVars, authCall>>

----------------------------------------------------------------------------
(* router.py: serve_status, polled by the thread MatchLib starts *)

\* auth_code = request.args.get("auth"); authenticate(auth_code, MODE) if
\* auth_code else -1
serve_status_begin(code) ==
    /\ statusReq.pc = "idle"
    /\ statusReq' = [pc |-> "check", exc |-> "",
                     team |-> IF code = "" THEN -1 ELSE authenticate(code, MODE)]
    /\ UNCHANGED <<now, mutex, teams, fares, matchVars, claimReq, posReq, resp, held, genVars,
                   matchData, userPc, whereReq, loopVars, authCall>>

\* if team in fms.teams: evaluated without the lock
serve_status_check ==
    /\ statusReq.pc = "check"
    /\ statusReq' = [statusReq EXCEPT
                       !.pc = IF statusReq.team \in DOMAIN teams THEN "touch" ELSE "snapshot"]
    /\ UNCHANGED <<now, mutex, teams, fares, matchVars, claimReq, posReq, resp, held, genVars,
                   matchData, userPc, whereReq, loopVars, authCall>>

\* fms.teams[team].lastStatus = time.time(): written without the lock; a
\* KeyError when the team has gone since the test.  The request then fails,
\* urlopen raises in the polling thread and the thread ends
serve_status_touch ==
    /\ statusReq.pc = "touch"
    /\ IF statusReq.team \in DOMAIN teams
       THEN /\ teams' = [teams EXCEPT ![statusReq.team].lastStatus = now]
            /\ statusReq' = [statusReq EXCEPT !.pc = "snapshot"]
       ELSE /\ statusReq' = [statusReq EXCEPT !.pc = "dead", !.exc = "KeyError"]
            /\ UNCHANGED teams
    /\ UNCHANGED <<now, mutex, fares, matchVars, claimReq, posReq, resp, held, genVars,
                   matchData, userPc, whereReq, loopVars, authCall>>

\* the body the route returns
StatusJson(team) ==
    [mode |-> MODE.value, match |-> matchNum, matchStart |-> matchRunning,
     timeRemain |-> matchEndTime - now, inMatch |-> team \in DOMAIN teams, team |-> team]

\* with fms.mutex: return jsonify(...); MatchLib._update_match_status stores
\* the body of the 200 reply in _matchData
serve_status_snapshot ==
    /\ statusReq.pc = "snapshot"
    /\ mutex = None
    /\ matchData' = Some(StatusJson(statusReq.team))
    /\ statusReq' = IdleStatus
    /\ UNCHANGED <<now, mutex, teams, fares, matchVars, claimReq, posReq, resp, held, genVars,
                   userPc, whereReq, loopVars, authCall>>

serve_status(code) ==
    \/ serve_status_begin(code)
    \/ serve_status_check
    \/ serve_status_touch
    \/ serve_status_snapshot

----------------------------------------------------------------------------
(* MatchLib.py: the accessors, and test.py: the script that uses them *)

is_connected == matchData # None

is_match_started == IF matchData = None THEN FALSE ELSE matchData[1].matchStart

\* is_match_finished without the call of is_match_started()
is_match_finished_time_only ==
    IF matchData = None THEN FALSE ELSE matchData[1].timeRemain < 0

is_match_finished ==
    IF matchData = None THEN FALSE ELSE is_match_started /\ matchData[1].timeRemain < 0

is_in_match == IF matchData = None THEN FALSE ELSE matchData[1].inMatch

auth_success == IF matchData = None THEN FALSE ELSE matchData[1].team = client_team

\* _main has ended: urlopen raised on a reply that is not a success (the 500
\* of a handler that raised), nothing catches it in _update_match_status or
\* _main, and no further poll is sent
poll_thread_ended == statusReq.pc = "dead"

\* wait_for_connection(): returns when is_connected()
wait_for_connection ==
    /\ userPc = "wait_for_connection"
    /\ is_connected
    /\ userPc' = "wait_for_match"
    /\ UNCHANGED <<now, mutex, teams, fares, matchVars, claimReq, posReq, resp, held, genVars,
                   statusReq, matchData, whereReq, loopVars, authCall>>

\* wait_for_match as it would be if it returned for a team in the match
\* whether or not the match had started
wait_for_match_early ==
    /\ userPc = "wait_for_match"
    /\ is_in_match
    /\ userPc' = "match"
    /\ UNCHANGED <<now, mutex, teams, fares, matchVars, claimReq, posReq, resp, held, genVars,
                   statusReq, matchData, whereReq, loopVars, authCall>>

\* wait_for_match(): returns when is_in_match() and is_match_started()
wait_for_match ==
    /\ userPc = "wait_for_match"
    /\ is_in_match /\ is_match_started
    /\ userPc' = "match"
    /\ UNCHANGED <<now, mutex, teams, fares, matchVars, claimReq, posReq, resp, held, genVars,
                   statusReq, matchData, whereReq, loopVars, authCall>>

\* while not is_match_finished(): pass
match_loop_exit ==
    /\ userPc = "match"
    /\ is_match_finished
    /\ userPc' = "finished"
    /\ UNCHANGED <<now, mutex, teams, fares, matchVars, claimReq, posReq, resp, held, genVars,
                   statusReq, matchData, whereReq, loopVars, authCall>>

\* test.py
test_script ==
    \/ wait_for_connection
    \/ wait_for_match
    \/ match_loop_exit

----------------------------------------------------------------------------
(* router.py: current_fare and whereami_get *)

\* current_fare(team), under the lock; it changes nothing
current_fare(team) ==
    /\ mutex = None
    /\ resp' = Reply("current", 200,
                     IF team \notin DOMAIN teams THEN "not in this match"
                     ELSE IF teams[team].currentFare = None THEN "no active fare"
                     ELSE "")
    /\ UNCHANGED <<now, mutex, teams, fares, matchVars, claimReq, posReq, held, genVars,
                   clientVars, loopVars, authCall>>

whereami_get_begin(team) ==
    /\ whereReq.pc = "idle"
    /\ whereReq' = [pc |-> "check", team |-> team]
    /\ UNCHANGED <<now, mutex, teams, fares, matchVars, claimReq, posReq, resp, held, genVars,
                   statusReq, matchData, userPc, loopVars, authCall>>

\* if team in fms.teams.keys(): evaluated without the lock
whereami_get_check ==
    /\ whereReq.pc = "check"
    /\ IF whereReq.team \in DOMAIN teams
       THEN /\ whereReq' = [whereReq EXCEPT !.pc = "use"]
            /\ UNCHANGED resp
       ELSE /\ whereReq' = IdleWhere
            /\ resp' = Reply("whereami", 200, "not in this match")
    /\ UNCHANGED <<now, mutex, teams, fares, matchVars, claimReq, posReq, held, genVars,
                   statusReq, matchData, userPc, loopVars, authCall>>

\* team = fms.teams[team]: read without the lock; a KeyError when the team
\* has gone since the test
whereami_get_use ==
    /\ whereReq.pc = "use"
    /\ whereReq' = IdleWhere
    /\ resp' = IF whereReq.team \in DOMAIN teams
               THEN Reply("whereami", 200, "")
               ELSE Reply("whereami", 500, "KeyError")
    /\ UNCHANGED <<now, mutex, teams, fares, matchVars, claimReq, posReq, held, genVars,
                   statusReq, matchData, userPc, loopVars, authCall>>

whereami_get(team) ==
    \/ whereami_get_begin(team)
    \/ whereami_get_check
    \/ whereami_get_use

----------------------------------------------------------------------------
(* router.py: whereami_update, handled without the lock *)

\* team.py (not among the inspected sources): Team.update_position
update_position(team, point, t) == [team EXCEPT !.pos = point, !.lastPosUpdate = t]

Entries == [team : TeamNums \cup {-1}, point : Coords]
RECURSIVE SeqsUpTo(_, _)
SeqsUpTo(S, n) ==
    IF n = 0 THEN {<<>>}
    ELSE SeqsUpTo(S, n - 1) \cup {Append(q, x) : q \in {p \in SeqsUpTo(S, n - 1) : Len(p) = n - 1}, x \in S}
Batches == SeqsUpTo(Entries, MaxBatch)

\* after an entry: the next one, or the end of the loop
PosAdvance(p) ==
    IF p.i >= Len(p.batch) THEN [p EXCEPT !.pc = "done", !.i = p.i + 1]
    ELSE [p EXCEPT !.pc = "check", !.i = p.i + 1]

\* validate(json, schema): a payload the schema rejects is logged and dropped
whereami_update_begin(valid, json) ==
    /\ posReq.pc \in {"idle", "done"}
    /\ posReq' = IF ~valid THEN [IdlePos EXCEPT !.pc = "done", !.exc = "Validation failed"]
                 ELSE IF json = <<>> THEN [IdlePos EXCEPT !.pc = "done"]
                 ELSE [IdlePos EXCEPT !.pc = "check", !.batch = json]
    /\ UNCHANGED <<now, mutex, teams, fares, matchVars, claimReq, resp, held, genVars, clientVars, loopVars, authCall>>

\* the membership test as it would be if an unknown team were entered in
\* the roster
whereami_update_check_create ==
    /\ posReq.pc = "check"
    /\ posReq' = [posReq EXCEPT !.pc = "use"]
    /\ LET team == posReq.batch[posReq.i].team
       IN  teams' = IF team \in DOMAIN teams THEN teams ELSE DictSet(teams, team, Team(team))
    /\ UNCHANGED <<now, mutex, fares, matchVars, claimReq, resp, held, genVars, clientVars, loopVars, authCall>>

\* if team in fms.teams.keys()
whereami_update_check ==
    /\ posReq.pc = "check"
    /\ posReq' = IF posReq.batch[posReq.i].team \in DOMAIN teams
                 THEN [posReq EXCEPT !.pc = "use"]
                 ELSE PosAdvance(posReq)
    /\ UNCHANGED <<now, mutex, teams, fares, matchVars, claimReq, resp, held, genVars, clientVars, loopVars, authCall>>

\* fms.teams[team].update_position(Point(x, y)); KeyError leaves the handler
whereami_update_use ==
    /\ posReq.pc = "use"
    /\ LET e == posReq.batch[posReq.i]
       IN  IF e.team \in DOMAIN teams
           THEN /\ teams' = [teams EXCEPT ![e.team] = update_position(teams[e.team], e.point, now)]
                /\ posReq' = PosAdvance(posReq)
           ELSE /\ posReq' = [posReq EXCEPT !.pc = "done", !.exc = "KeyError"]
                /\ UNCHANGED teams
    /\ UNCHANGED <<now, mutex, fares, matchVars, claimReq, resp, held, genVars, clientVars, loopVars, authCall>>

---------------------------------------------------------------------------------------------------------------------------------------------------
(* The server.  Each specification is the interleaving of the routes, the   *)
(* events and the driver that act on one part of the state.                 *)

\* the roster routes
RosterNext ==
    \/ \E team \in TeamNums : lab_add_team(team)
    \/ \E team \in TeamNums : lab_remove_team(team)
    \/ \E team \in TeamNums : serve_add_team(team)
    \/ \E team \in TeamNums : serve_remove_team(team)

\* the match routes
MatchRoutesNext ==
    \/ \E data \in Payloads : lab_config_match(data)
    \/ lab_start_match
    \/ \E data \in Payloads : serve_config_match(data)
    \/ serve_start_match

\* claim_fare on thread r, for fare indices up to maxIdx
ClaimThread(r, maxIdx) ==
    \/ \E code \in Codes, idx \in 0..maxIdx : claim_fare_begin(r, code, idx)
    \/ claim_fare_lock(r)
    \/ claim_fare_check(r)
    \/ claim_fare_exit(r)

\* whereami_update
PositionNext ==
    \/ \E json \in Batches : whereami_update_begin(TRUE, json)
    \/ whereami_update_begin(FALSE, <<>>)
    \/ whereami_update_check
    \/ whereami_update_use

\* the match timer: the clock, the match routes, the driver (whose fare
\* generation fails at every tick)
NextMatch ==
    \/ AdvanceTime
    \/ MatchRoutesNext
    \/ PeriodicTick(0)

SpecMatch == Init /\ [][NextMatch]_vars

\* the roster and the position updates
NextRoster ==
    \/ RosterNext
    \/ PositionNext

SpecRoster == Init /\ [][NextRoster]_vars

\* no gameplay request is being handled
NoRequest ==
    /\ \A r \in Threads : claimReq[r].pc \in {"idle", "done"}
    /\ statusReq.pc \in {"idle", "dead"}
    /\ whereReq.pc = "idle"
    /\ posReq.pc \in {"idle", "done"}

\* gameplay traffic next to the roster routes: status polls, claims, fare
\* and position queries, position updates, one request at a time, with the
\* roster routes and the driver between any two of its steps
NextTraffic ==
    \/ lab_add_team(client_team)
    \/ lab_remove_team(client_team)
    \/ PeriodicTick(MaxClaimFares)
    \/ NoRequest /\ \E team \in TeamNums : serve_status_begin(Str(team))
    \/ serve_status_check
    \/ serve_status_touch
    \/ serve_status_snapshot
    \/ NoRequest /\ \E team \in TeamNums : claim_fare_begin(1, Str(team), 0)
    \/ claim_fare_lock(1)
    \/ claim_fare_check(1)
    \/ claim_fare_exit(1)
    \/ NoRequest /\ \E team \in TeamNums : current_fare(team)
    \/ NoRequest /\ \E team \in TeamNums : whereami_get_begin(team)
    \/ whereami_get_check
    \/ whereami_get_use
    \/ NoRequest /\ \E json \in {j \in Batches : Len(j) < MaxBatch} :
                       whereami_update_begin(TRUE, json)
    \/ whereami_update_check
    \/ whereami_update_use

SpecTraffic == Init /\ [][NextTraffic]_vars

\* requests that take the lock next to requests that do not: claim_fare,
\* the status poll and the position query side by side
NextLock ==
    \/ lab_add_team(client_team)
    \/ PeriodicTick(MaxClaimFares)
    \/ \E team \in TeamNums : claim_fare_begin(1, Str(team), 0)
    \/ claim_fare_lock(1)
    \/ claim_fare_check(1)
    \/ claim_fare_exit(1)
    \/ \E team \in TeamNums : serve_status(Str(team))
    \/ \E team \in TeamNums : whereami_get(team)

SpecLock == Init /\ [][NextLock]_vars

\* the two loops of a tick, for every target_count up to MaxTarget; the
\* driver thread keeps running, so each loop step that can be taken is taken
InitLoop == \E t \in 0..MaxTarget : InitWith([FareSystemCfg(NumPoints) EXCEPT !.target = t])

NextLoop ==
    \/ replenish_begin
    \/ replenish_test
    \/ generate_fare_try
    \/ generate_fare_return
    \/ replenish_take

SpecLoop ==
    /\ InitLoop
    /\ [][NextLoop]_vars
    /\ WF_vars(replenish_test)
    /\ WF_vars(generate_fare_try)
    /\ WF_vars(generate_fare_return)
    /\ WF_vars(replenish_take)

\* the driver next to a match that is configured, started and runs out
NextChurn ==
    \/ AdvanceTime
    \/ \E data \in Payloads : lab_config_match(data)
    \/ lab_start_match
    \/ PeriodicTick(MaxFares)

SpecChurn == Init /\ [][NextChurn]_vars

\* authenticate on its own: any code, the mode as an OperatingMode member or
\* as a plain string
AuthModes ==
    {OperatingMode_LAB, OperatingMode_HOME, OperatingMode_MATCH}
    \cup {[enum |-> FALSE, value |-> m.value] :
             m \in {OperatingMode_LAB, OperatingMode_HOME, OperatingMode_MATCH}}

AuthCodes == Codes \cup {"3", "7", "-1", "qwer", "Match"}

InitAuth ==
    /\ InitServer(FareSystemCfg(NumPoints))
    /\ authCall \in [code : AuthCodes, mode : AuthModes, out : {None}]

\* one call authenticate(code, mode)
CallAuthenticate ==
    /\ authCall.out = None
    /\ authCall' = [authCall EXCEPT !.out = Some(authenticate(authCall.code, authCall.mode))]
    /\ UNCHANGED <<now, mutex, teams, fares, matchVars, claimReq, posReq, resp, held, genVars,
                   clientVars, loopVars>>

SpecAuth == InitAuth /\ [][CallAuthenticate]_vars

\* router.py: if MODE == OperatingMode.LAB: import lab_tms.  The routes of
\* lab_tms exist only when the module has been imported
lab_registered == MODE = OperatingMode_LAB

LabRoutes == {"AddTeam", "RemoveTeam", "ConfigMatch", "StartMatch"}

\* a request for a URL no route is registered for: Flask answers 404
not_found(route) ==
    /\ resp' = Reply(route, 404, "")
    /\ UNCHANGED <<now, mutex, teams, fares, matchVars, claimReq, posReq, held, genVars,
                   clientVars, loopVars, authCall>>

\* requests for the four administration URLs, in every operating mode
InitAdmin ==
    \E m \in {OperatingMode_LAB, OperatingMode_HOME, OperatingMode_MATCH} :
       InitWith([FareSystemCfg(NumPoints) EXCEPT !.mode = m])

NextAdmin ==
    \/ lab_registered /\ \E team \in TeamNums : lab_add_team(team)
    \/ lab_registered /\ \E team \in TeamNums : lab_remove_team(team)
    \/ lab_registered /\ \E data \in Payloads : lab_config_match(data)
    \/ lab_registered /\ lab_start_match
    \/ ~lab_registered /\ \E route \in LabRoutes : not_found(route)

SpecAdmin == InitAdmin /\ [][NextAdmin]_vars

\* the configurations the operator posts while the client is watched
ClientPayloads == {data \in Payloads : data.number = IntField(7) /\ data.duration # IntField(2)}

\* a client of a team next to the operator's routes and the driver.  The
\* polling thread and the script keep running, the server answers, time
\* passes
NextClient ==
    \/ AdvanceTime
    \/ lab_add_team(client_team)
    \/ \E data \in ClientPayloads : lab_config_match(data)
    \/ lab_start_match
    \/ PeriodicTick(0)
    \/ serve_status(Str(client_team))
    \/ test_script

SpecClient ==
    /\ Init
    /\ [][NextClient]_vars
    /\ WF_vars(AdvanceTime)
    /\ WF_vars(serve_status(Str(client_team)))
    /\ WF_vars(test_script)

\* a client initialised with its team number and no auth key, polling a
\* server in LAB or in HOME mode; the roster routes exist in LAB mode
InitRound ==
    \E m \in {OperatingMode_LAB, OperatingMode_HOME} :
        InitWith([FareSystemCfg(NumPoints) EXCEPT !.mode = m])

NextRound ==
    \/ AdvanceTime
    \/ lab_registered /\ lab_add_team(client_team)
    \/ lab_registered /\ lab_remove_team(client_team)
    \/ lab_registered /\ lab_start_match
    \/ lab_registered /\ \E data \in ClientPayloads : lab_config_match(data)
    \/ serve_status(Str(client_team))

SpecRound == InitRound /\ [][NextRound]_vars

\* the polling thread of a client next to the roster routes
NextPoll ==
    \/ AdvanceTime
    \/ lab_add_team(client_team)
    \/ lab_remove_team(client_team)
    \/ \E data \in ClientPayloads : lab_config_match(data)
    \/ lab_start_match
    \/ serve_status(Str(client_team))

SpecPoll == Init /\ [][NextPoll]_vars

\* the ledger and a team's fares: the driver with a target it can reach, and
\* the claims of one team
InitLedger == \E t \in 1..MaxTarget : InitWith([FareSystemCfg(LedgerPoints) EXCEPT !.target = t])

NextLedger ==
    \/ lab_add_team(client_team)
    \/ PeriodicTick(MaxFares)
    \/ \E idx \in 0..(MaxFares - 1) : claim_fare_begin(1, Str(client_team), idx)
    \/ claim_fare_lock(1)
    \/ claim_fare_check(1)
    \/ claim_fare_exit(1)

SpecLedger == InitLedger /\ [][NextLedger]_vars

\* concurrent claims: the roster, the driver, claim_fare on every thread
NextClaims ==
    \/ \E team \in TeamNums : lab_add_team(team)
    \/ PeriodicTick(MaxClaimFares)
    \/ \E r \in Threads : ClaimThread(r, MaxClaimFares)

SpecClaims == Init /\ [][NextClaims]_vars

\* the fare ledger: the driver, claims, the match routes
NextFares ==
    \/ \E team \in TeamNums : lab_add_team(team)
    \/ PeriodicTick(MaxFares)
    \/ ClaimThread(1, MaxFares)
    \/ lab_config_match([number |-> IntField(7), duration |-> Missing])
    \/ lab_start_match

SpecFares == Init /\ [][NextFares]_vars

\* the fare list: the driver, claims, GET /fares
NextList ==
    \/ \E team \in TeamNums : lab_add_team(team)
    \/ PeriodicTick(MaxFares)
    \/ ClaimThread(1, MaxFares)
    \/ \E all \in BOOLEAN : serve_fares_normal(all)

SpecList == Init /\ [][NextList]_vars

----------------------------------------------------------------------------
(* generate_fare on its own: any ledger, either module's constants *)

\* the fares a ledger passed to generate_fare may hold
GenFares ==
    [src : {p.point : p \in FareSystemCfg(GenPoints).points},
     dest : {p.point : p \in FareSystemCfg(GenPoints).points},
     type : FareType, isActive : BOOLEAN, claimedBy : {None}, serial : {-1}]
    \cup
    [src : {p.point : p \in VpfsCfg(GenPoints).points},
     dest : {p.point : p \in VpfsCfg(GenPoints).points},
     type : FareType, isActive : BOOLEAN, claimedBy : {None}, serial : {-1}]

InitGen ==
    /\ now = 1
    /\ mutex = None
    /\ teams = <<>>
    /\ fares = <<>>
    /\ matchState = "UNCONFIGURED"
    /\ matchNum = 0
    /\ matchDuration = 0
    /\ matchEndTime = 0
    /\ matchRunning = FALSE
    /\ claimReq = [r \in Threads |-> IdleClaim]
    /\ posReq = IdlePos
    /\ resp = NoReply
    /\ held = None
    /\ cfg \in {FareSystemCfg(GenPoints), VpfsCfg(GenPoints)}
    /\ genIn \in {fs \in SeqsUpTo(GenFares, MaxGenLedger) :
                      \A i \in 1..Len(fs) : fs[i].src \in {p.point : p \in cfg.points}
                                              /\ fs[i].dest \in {p.point : p \in cfg.points}
                                              /\ fs[i].src # fs[i].dest}
    /\ genOut = None
    /\ Quiet
    /\ authCall = None

\* one call generate_fare(genIn)
CallGenerate ==
    /\ genOut = None
    /\ \E g \in generate_fare(genIn) : genOut' = Some(g)
    /\ UNCHANGED <<now, mutex, teams, fares, matchVars, claimReq, posReq, resp, held,
                   cfg, genIn, clientVars, loopVars, authCall>>

SpecGen == InitGen /\ [][CallGenerate]_vars

\* routes of either table on pairwise distinct spawn points, each within the
\* distance bounds of its module
MulRoutes == <<<<1, 3>>, <<2, 4>>, <<5, 7>>, <<6, 8>>>>
MulPoints == 8

\* the ledgers of up to MaxMulLedger fares on these routes: the i-th fare
\* runs on the i-th route, with any type, active or not
MulLedgers(tbl) ==
    UNION { { [i \in 1..n |->
                 [Fare(tbl[MulRoutes[i][1]].point, tbl[MulRoutes[i][2]].point, ty[i])
                    EXCEPT !.isActive = ac[i]]]
              : ty \in [1..n -> FareType], ac \in [1..n -> BOOLEAN] }
            : n \in 0..Min2(MaxMulLedger, Len(MulRoutes)) }

InitMul ==
    /\ now = 1
    /\ mutex = None
    /\ teams = <<>>
    /\ fares = <<>>
    /\ matchState = "UNCONFIGURED"
    /\ matchNum = 0
    /\ matchDuration = 0
    /\ matchEndTime = 0
    /\ matchRunning = FALSE
    /\ claimReq = [r \in Threads |-> IdleClaim]
    /\ posReq = IdlePos
    /\ resp = NoReply
    /\ held = None
    /\ \/ cfg = FareSystemCfg(MulPoints) /\ genIn \in MulLedgers(points)
       \/ cfg = VpfsCfg(MulPoints) /\ genIn \in MulLedgers(points_vpfs)
    /\ genOut = None
    /\ Quiet
    /\ authCall = None

\* generate_fare on these ledgers
SpecMul == InitMul /\ [][CallGenerate]_vars

Next ==
    \/ NextMatch
    \/ NextRoster
    \/ NextClaims
    \/ NextFares
    \/ NextList
    \/ CallGenerate

Spec == Init /\ [][Next]_vars

----------------------------------------------------------------------------
(* Claims about claim_fare (SpecClaims) *)

Done(r) == claimReq[r].pc = "done"

\* the request was made for a team of the roster and a fare of the ledger
Attributed(r) ==
    claimReq[r].message \notin {"Authentication failed", "Team not in this match",
                                "Could not find fare"}

\* C1: of two (or more) claim requests by roster teams for the same fare
\* index at most one succeeds; when one succeeds every other one ends with
\* "already claimed" or "not active" and the fare's claimedBy is the winner;
\* a request that found the fare active and unclaimed succeeds, and a
\* refusal is truthful about the fare.
C1_ClaimExactlyOnce ==
    /\ \A r1 \in Threads : \A r2 \in Threads \ {r1} :
          (Done(r1) /\ Done(r2) /\ claimReq[r1].idx = claimReq[r2].idx
             /\ Attributed(r1) /\ Attributed(r2))
          => /\ ~(claimReq[r1].success /\ claimReq[r2].success)
             /\ claimReq[r1].success
                  => /\ claimReq[r2].message \in {"Fare already claimed", "Fare not active"}
                     /\ fares[claimReq[r1].idx + 1].claimedBy = Some(claimReq[r1].team)
    /\ \A r \in Threads :
          (Done(r) /\ Attributed(r))
          => /\ claimReq[r].success = (claimReq[r].message = "")
             /\ claimReq[r].message = "Fare already claimed"
                  => fares[claimReq[r].idx + 1].claimedBy # None
             /\ claimReq[r].message = "Fare not active"
                  => ~fares[claimReq[r].idx + 1].isActive
             /\ claimReq[r].success
                  => fares[claimReq[r].idx + 1].claimedBy # None

\* two requests of different teams raced for fare 0: one holds it, the other
\* was told it is already claimed
C1_Witness ==
    \E r1 \in Threads : \E r2 \in Threads \ {r1} :
        /\ Done(r1) /\ Done(r2)
        /\ claimReq[r1].raced
        /\ claimReq[r1].idx = 0 /\ claimReq[r2].idx = 0
        /\ claimReq[r1].team # claimReq[r2].team
        /\ claimReq[r1].success
        /\ claimReq[r2].message = "Fare already claimed"
        /\ fares[1].claimedBy = Some(claimReq[r1].team)

\* the claim refused: out of range, not active, or already claimed
ClaimRefused(idx) ==
    \/ idx >= Len(fares)
    \/ ~fares[idx + 1].isActive
    \/ fares[idx + 1].claimedBy # None

\* C2: for a team of the roster, claim_fare fails exactly when the index is
\* out of range, the fare is not active or the fare is already claimed; a
\* failure carries a message and changes no claimedBy and no current fare; a
\* success sets the fare's claimedBy to the team and the team's current fare
\* to the index.
C2_ClaimOutcome ==
    [][\A r \in Threads :
          (claim_fare_exit(r) /\ claimReq[r].team \in DOMAIN teams)
          => IF ClaimRefused(claimReq[r].idx)
             THEN /\ ~claimReq'[r].success
                  /\ claimReq'[r].message # ""
                  /\ \A i \in 1..Len(fares) : fares'[i].claimedBy = fares[i].claimedBy
                  /\ Len(fares') = Len(fares)
                  /\ \A t \in DOMAIN teams : teams'[t].currentFare = teams[t].currentFare
             ELSE /\ claimReq'[r].success
                  /\ fares'[claimReq[r].idx + 1].claimedBy = Some(claimReq[r].team)
                  /\ teams'[claimReq[r].team].currentFare = Some(claimReq[r].idx)
                  /\ \A i \in 1..Len(fares) :
                        i # claimReq[r].idx + 1 => fares'[i].claimedBy = fares[i].claimedBy
      ]_vars

\* one request has succeeded and its team holds the fare; another was
\* refused because the fare is no longer active
C2_Witness ==
    \E r1 \in Threads : \E r2 \in Threads \ {r1} :
        /\ Done(r1) /\ claimReq[r1].success
        /\ claimReq[r1].team \in DOMAIN teams
        /\ teams[claimReq[r1].team].currentFare = Some(claimReq[r1].idx)
        /\ Done(r2) /\ claimReq[r2].message = "Fare not active"
        /\ claimReq[r2].team \in DOMAIN teams

----------------------------------------------------------------------------
(* Claims about the roster and the position updates (SpecRoster) *)

\* C3: the roster lists each team number once (every entry is filed under
\* its own number); adding a number that is present reports a conflict and
\* removing a number that is absent reports not-found, and both leave the
\* roster as it was.
C3_RosterNoDuplicate ==
    /\ [](\A k \in DOMAIN teams : teams[k].number = k
            /\ Cardinality({teams[j].number : j \in DOMAIN teams}) = Cardinality(DOMAIN teams))
    /\ [][\A team \in TeamNums :
            /\ (lab_add_team(team) /\ team \in DOMAIN teams)
                 => (teams' = teams /\ resp'.status = 409)
            /\ (lab_remove_team(team) /\ team \notin DOMAIN teams)
                 => (teams' = teams /\ resp'.status = 404)
            /\ (serve_add_team(team) /\ team \in DOMAIN teams)
                 => (teams' = teams /\ resp'.err = "Already have team")
            /\ (serve_remove_team(team) /\ team \notin DOMAIN teams)
                 => (teams' = teams /\ resp'.err = "No team to remove")
            /\ (lab_add_team(team) /\ team \notin DOMAIN teams)
                 => (DOMAIN teams' = DOMAIN teams \cup {team} /\ resp'.status = 200)
            /\ (lab_remove_team(team) /\ team \in DOMAIN teams)
                 => (DOMAIN teams' = DOMAIN teams \ {team} /\ resp'.status = 200)
       ]_vars

\* a second AddTeam for a team that has moved was answered 409, and the team
\* is still where it was
C3_Witness ==
    /\ resp.route = "AddTeam" /\ resp.status = 409
    /\ \E k \in DOMAIN teams : teams[k].pos # <<0, 0>>

\* C8 (the claim as written): a whereami_update event ends without an error
\* reaching the caller and with every entry of the batch reached: the
\* entries of roster teams applied, the others skipped.
C8_BatchBestEffort ==
    posReq.pc = "done"
    => /\ posReq.exc \in {"", "Validation failed"}
       /\ posReq.exc = "" => posReq.i = Len(posReq.batch) + 1

----------------------------------------------------------------------------
(* Claims about generate_fare (SpecGen) *)

\* C4: a fare returned by generate_fare has src # dest, a distance between
\* src and dest within [DIST_MIN, DIST_MAX], and neither endpoint is the src
\* or the dest of a fare that is active in the ledger passed in.
C4_GeneratedFareLegal ==
    (genOut # None /\ genOut[1] # None)
    => LET f == genOut[1][1]
           d2 == DistSq(f.src, f.dest)
       IN  /\ f.src # f.dest
           /\ d2 * cfg.distMin[2] * cfg.distMin[2] >= cfg.distMin[1] * cfg.distMin[1]
           /\ ~SqGreater(d2, cfg.distMax)
           /\ \A i \in 1..Len(genIn) :
                 genIn[i].isActive
                 => {f.src, f.dest} \cap {genIn[i].src, genIn[i].dest} = {}

\* a fare was generated next to an active fare, with the constants under
\* which some pairs of points are too close
C4_Witness ==
    /\ Len(genIn) = 1 /\ genIn[1].isActive
    /\ cfg.distMin = <<VPFS_DIST_MIN, 1>>
    /\ genOut # None /\ genOut[1] # None

----------------------------------------------------------------------------
(* Claims about the match (SpecMatch) *)

\* both fields of a /Lab/ConfigMatch body convert to integers
Convertible(data) == IntOrDefault(data.number) # None /\ IntOrDefault(data.duration) # None

\* C5: after configure_match(n, d) the match has number n and duration d;
\* start_match at time t then puts it in RUNNING with end time t + d; a tick
\* moves a RUNNING match to ENDED exactly when now >= end time; time passing
\* alone ends nothing; a tick of an ENDED match leaves it ENDED.
C5_MatchLifecycle ==
    [][ /\ \A data \in Payloads :
              (lab_config_match(data) /\ Convertible(data))
              => /\ matchState' = "CONFIGURED"
                 /\ matchNum' = IntOrDefault(data.number)[1]
                 /\ matchDuration' = IntOrDefault(data.duration)[1]
        /\ ((lab_start_match \/ serve_start_match) /\ matchState = "CONFIGURED")
              => /\ matchState' = "RUNNING"
                 /\ matchEndTime' = now + matchDuration
                 /\ matchNum' = matchNum /\ matchDuration' = matchDuration
        /\ (PeriodicTick(0) /\ matchState = "RUNNING")
              => /\ matchState' = IF now >= matchEndTime THEN "ENDED" ELSE "RUNNING"
                 /\ matchEndTime' = matchEndTime
        /\ (PeriodicTick(0) /\ matchState = "ENDED") => matchState' = "ENDED"
        /\ AdvanceTime => UNCHANGED matchVars
      ]_vars

\* a match of duration 2 started at time 1 was ended by the tick at time 3
C5_Witness ==
    /\ matchState = "ENDED" /\ matchDuration = 2 /\ matchEndTime = 3 /\ now = 3

C7_ConfigureFromAnyState ==
    /\ [](matchState = "CONFIGURED" => ~matchRunning /\ matchEndTime = 0)
    /\ [][ /\ \A data \in Payloads :
                 /\ (lab_config_match(data) /\ Convertible(data))
                      => /\ resp'.status = 200
                         /\ matchState' = "CONFIGURED" /\ ~matchRunning' /\ matchEndTime' = 0
                         /\ matchNum' = IntOrDefault(data.number)[1]
                         /\ matchDuration' = IntOrDefault(data.duration)[1]
                 /\ (serve_config_match(data) /\ data.number.kind = "int"
                                              /\ data.duration.kind = "int")
                      => /\ resp'.status = 200
                         /\ matchState' = "CONFIGURED" /\ ~matchRunning' /\ matchEndTime' = 0
                         /\ matchNum' = data.number.val
                         /\ matchDuration' = data.duration.val
           /\ (PeriodicTick(0) /\ matchState = "CONFIGURED") => UNCHANGED matchVars
         ]_vars

\* a running match was configured anew
C7_Witness ==
    /\ resp.route = "ConfigMatch" /\ resp.status = 200 /\ resp.from = "RUNNING"
    /\ matchState = "CONFIGURED" /\ matchEndTime = 0

----------------------------------------------------------------------------
(* Claims about the fare ledger (SpecList, SpecFares) *)

\* the reply entry e describes the fare now at ledger index e.id
SameFare(e) ==
    /\ e.id \in 0..(Len(fares) - 1)
    /\ fares[e.id + 1].serial = e.serial
    /\ fares[e.id + 1].src = e.src
    /\ fares[e.id + 1].dest = e.dest
    /\ fares[e.id + 1].type = e.type

\* C9: a fare's index is its insertion position and stays its own: the
\* ledger never shrinks and the fare at an index is never replaced; a
\* snapshot, active-only or complete, lists the fares in insertion order
\* under their ledger indices; an entry kept from an earlier snapshot still
\* names the same fare.
C9_StableIndices ==
    /\ [](\A i \in 1..Len(fares) : fares[i].serial = i - 1)
    /\ [](\A all \in BOOLEAN :
            LET reply == serve_fares(FALSE, all)
            IN  /\ \A j \in 1..Len(reply) : SameFare(reply[j])
                /\ \A j, k \in 1..Len(reply) : j < k => reply[j].id < reply[k].id
                /\ {reply[j].id : j \in 1..Len(reply)}
                     = {i - 1 : i \in {n \in 1..Len(fares) : fares[n].isActive \/ all}})
    /\ [](held # None => SameFare(held[1]))
    /\ [][ /\ Len(fares') >= Len(fares)
           /\ \A i \in 1..Len(fares) :
                 /\ fares'[i].serial = fares[i].serial
                 /\ fares'[i].src = fares[i].src
                 /\ fares'[i].dest = fares[i].dest
                 /\ fares'[i].type = fares[i].type
         ]_vars

\* a client holds the entry of the second fare, read with index 1, and the
\* first fare has been retired since or before
C9_Witness ==
    /\ held # None /\ held[1].id = 1
    /\ Len(fares) = 2 /\ ~fares[1].isActive

\* C10: a fare that is inactive is inactive after every step and keeps its
\* place in the ledger, which never loses an entry.
C10_ActivityMonotone ==
    [][ /\ Len(fares') >= Len(fares)
        /\ \A i \in 1..Len(fares) :
              ~fares[i].isActive
              => ~fares'[i].isActive /\ fares'[i].serial = fares[i].serial
      ]_vars

\* a claimed fare has been retired and a younger fare is active after it,
\* during a match
C10_Witness ==
    /\ Len(fares) = 2
    /\ ~fares[1].isActive /\ fares[1].claimedBy # None
    /\ fares[2].isActive
    /\ matchState = "RUNNING"

----------------------------------------------------------------------------
(* Claims about locking and the roster under gameplay traffic (SpecLock, SpecTraffic) *)

\* C11 (the claim as written): every access to the roster is made under the
\* lock, the status poll's membership test and timestamp write and the
\* position query's lookup included: none of them happens while another
\* handler holds the lock.
C11_AllAccessUnderLock ==
    [][ (serve_status_check \/ serve_status_touch \/ whereami_get_check \/ whereami_get_use)
        => mutex = None ]_vars

\* C12 (the claim as written): a position batch is applied under one lock
\* acquisition: from its first entry to its last, no step of another
\* handler changes the roster.
C12_BatchUnderOneLock ==
    [][ posReq.pc \in {"check", "use"}
        => (whereami_update_check \/ whereami_update_use \/ UNCHANGED teams) ]_vars

----------------------------------------------------------------------------
(* Claims about the loops of a tick (SpecLoop) *)

ActiveCount == Cardinality(ActiveIdx(fares))

\* C13: replenish appends a fare only while the active count is below the
\* target; it tests the count again after each fare; it ends with the
\* target met or with a failed generation; after a failed generation it
\* makes no further call in the same tick; and it always ends.
C13_ReplenishStops ==
    /\ [][Len(fares') > Len(fares) => ActiveCount < cfg.target /\ rep'.pc = "test"]_vars
    /\ [](rep.pc = "done" => rep.failed \/ ActiveCount >= cfg.target)
    /\ [](rep.pc = "call" => ActiveCount < cfg.target /\ ~rep.failed)
    /\ [][rep.failed /\ rep'.failed => rep'.calls = rep.calls /\ rep'.pc = "done"]_vars
    /\ [](rep.calls <= cfg.target + 1)
    /\ (rep.pc = "test") ~> (rep.pc = "done")

\* a tick whose second generation failed: one fare short of the target
C13_Witness ==
    /\ rep.pc = "done" /\ rep.failed /\ rep.calls = 2
    /\ ActiveCount = 1 /\ cfg.target = 2

\* C14: generate_fare draws at most GEN_TRIES pairs and none after an
\* accepted one; it always returns; it returns None exactly when no draw was
\* accepted, which takes all GEN_TRIES draws; the tick then ends with the
\* ledger as it was.  What it returns is a value of generate_fare(genIn).
C14_GenerateBounded ==
    /\ [](loop.ovf <= GEN_TRIES)
    /\ [][loop'.ovf > loop.ovf => ~loop.success /\ loop.ovf < GEN_TRIES]_vars
    /\ [][loop.pc = "try" /\ loop'.pc = "done"
          => /\ genOut'[1] = None <=> ~loop.success
             /\ ~loop.success => loop.ovf = GEN_TRIES
             /\ genOut'[1] \in generate_fare(genIn)]_vars
    /\ [][rep.pc = "call" /\ loop.pc = "done" /\ genOut[1] = None
          => fares' = fares /\ rep'.pc = "done"]_vars
    /\ (loop.pc = "try") ~> (loop.pc = "done")

\* every spawn point is an endpoint of the one active fare: ten draws were
\* rejected, None was returned and the tick ended
C14_Witness ==
    /\ rep.pc = "done" /\ rep.failed
    /\ genOut = Some(None)
    /\ ActiveCount = 1
    /\ {p.point : p \in cfg.points} = ExistingPoints(fares)

----------------------------------------------------------------------------
(* Claims about the driver and the match state (SpecChurn) *)

\* some pair of spawn points passes generate_fare's test
LegalPair == \E p1 \in cfg.points, p2 \in cfg.points : PairAccepted(fares, p1, p2)

\* C15: in every match state a tick can retire an active fare, and with the
\* active count below the target and a legal pair of spawn points a tick
\* can add a fare.
C15_ChurnInEveryState ==
    /\ (mutex = None /\ ActiveIdx(fares) # {})
       => ENABLED (PeriodicTick(MaxFares)
                     /\ \E i \in ActiveIdx(fares) : ~fares'[i].isActive)
    /\ (mutex = None /\ Len(fares) < MaxFares /\ ActiveCount < cfg.target /\ LegalPair)
       => ENABLED (PeriodicTick(MaxFares) /\ Len(fares') > Len(fares))

\* the match has been ended by a tick, its one fare has been retired, and
\* the next tick can add a fare
C15_Witness ==
    /\ matchState = "ENDED" /\ matchEndTime > 0
    /\ Len(fares) = 1 /\ ~fares[1].isActive
    /\ ENABLED (PeriodicTick(MaxFares) /\ Len(fares') > Len(fares))

----------------------------------------------------------------------------
(* Claims about the roster under gameplay traffic (SpecTraffic) *)

\* C16: the set of team numbers in the roster changes only in a step of
\* add_team or remove_team; status polls, claims, current-fare and position
\* queries and position updates, for roster teams and unknown ones, leave
\* it as it is.
C16_TrafficKeepsRoster ==
    [][ DOMAIN teams' # DOMAIN teams
        => \E team \in TeamNums : lab_add_team(team) \/ lab_remove_team(team) ]_vars

\* a position update for a team that is not in the roster has been handled
\* next to a roster with one team, which a claim has given a fare
C16_Witness ==
    /\ posReq.pc = "done" /\ posReq.batch # <<>>
    /\ posReq.batch[1].team \notin DOMAIN teams
    /\ DOMAIN teams = {client_team}
    /\ teams[client_team].currentFare # None
    /\ teams[client_team].lastStatus > 0

----------------------------------------------------------------------------
(* Claims about authenticate (SpecAuth) *)

\* C17 (the claim as written): with the mode MATCH, given as the member or
\* as its string, authenticate returns the table's number for the code, or
\* -1 for a code outside the table; with LAB or HOME it returns the code
\* parsed as an integer, or -1.
C17_AuthByMode ==
    authCall.out # None
    => authCall.out[1] =
          IF authCall.mode.value = "Match"
          THEN (IF authCall.code \in DOMAIN authCodes THEN authCodes[authCall.code] ELSE -1)
          ELSE (IF ParseInt(authCall.code) = None THEN -1 ELSE ParseInt(authCall.code)[1])

----------------------------------------------------------------------------
(* Claims about the administration routes (SpecAdmin) *)

\* C18 (the claim as written): when the mode is not LAB, a request to add
\* or remove a team or to configure or start the match is answered 403 and
\* leaves the roster and the match as they were.
C18_LabOnly ==
    [][ (MODE # OperatingMode_LAB /\ resp' # resp)
        => (resp'.status = 403 /\ UNCHANGED <<teams, matchVars>>) ]_vars

----------------------------------------------------------------------------
(* Claims about the client library (SpecClient) *)

C20_ClientProgress ==
    /\ <>(userPc # "wait_for_connection")
    /\ [][userPc = "wait_for_match" /\ userPc' # userPc
          => matchData # None /\ matchData[1].inMatch /\ matchData[1].matchStart]_vars
    /\ <>[](client_team \in DOMAIN teams /\ matchRunning) => <>(userPc \in {"match", "finished"})
    /\ <>[](client_team \in DOMAIN teams /\ matchRunning /\ now > matchEndTime)
         => <>(userPc = "finished")

\* the script has left its loop after a match of duration 1
C20_Witness ==
    /\ userPc = "finished"
    /\ matchState = "ENDED" /\ matchDuration = 1

----------------------------------------------------------------------------
(* Claims about the balancing multipliers (SpecMul) *)

\* the share q / a of q fares among a is below, above the fraction f
ShareBelow(q, a, f) == q * f[2] < f[1] * a
ShareAbove(q, a, f) == q * f[2] > f[1] * a

----------------------------------------------------------------------------
(* More claims about claim_fare (SpecClaims) *)

\* C23: a claim request whose code resolves to -1 is answered success =
\* false, "Authentication failed"; one whose team is not in the roster is
\* answered success = false, "not in this match"; in both cases, whatever
\* the fare index, no fare's claimedBy and no team's current fare changes.
C23_UnattributedClaim ==
    [][\A r \in Threads :
          (claim_fare_exit(r) /\ claimReq[r].team \notin DOMAIN teams)
          => /\ ~claimReq'[r].success
             /\ claimReq'[r].message = IF claimReq[r].team = -1 THEN "Authentication failed"
                                       ELSE "Team not in this match"
             /\ fares' = fares
             /\ teams' = teams
             /\ claimReq'[r].pc = "done"
      ]_vars

\* both refusals have been sent for index 0 while the fare at index 0 was
\* active and unclaimed
C23_Witness ==
    /\ Len(fares) > 0 /\ fares[1].isActive /\ fares[1].claimedBy = None
    /\ \E r1 \in Threads : \E r2 \in Threads \ {r1} :
          /\ Done(r1) /\ claimReq[r1].team = -1 /\ claimReq[r1].idx = 0
          /\ claimReq[r1].message = "Authentication failed"
          /\ Done(r2) /\ claimReq[r2].team \in TeamNums /\ claimReq[r2].idx = 0
          /\ claimReq[r2].message = "Team not in this match"

----------------------------------------------------------------------------
(* Claims about the polling thread (SpecPoll) *)

\* C24: after a poll that was not answered with HTTP OK, is_connected() is
\* false, and the polling loop goes on: the next poll can be sent.
C24_ConnectionTracking ==
    /\ statusReq.pc = "dead" => ~is_connected
    /\ ~poll_thread_ended
    /\ statusReq.pc \in {"idle", "dead"} => ENABLED serve_status_begin(Str(client_team))

----------------------------------------------------------------------------
(* Claims about the teams' current fares (SpecClaims, SpecLedger) *)

\* C25: each team's current fare is empty or the index of a fare of the
\* ledger whose claimedBy is that team.
C25_CurrentFareValid ==
    \A t \in DOMAIN teams :
        teams[t].currentFare # None
        => /\ teams[t].currentFare[1] \in 0..(Len(fares) - 1)
           /\ fares[teams[t].currentFare[1] + 1].claimedBy = Some(t)

\* a team holds fare 0, and a later request of another team for that fare
\* has been refused
C25_Witness ==
    \E t \in DOMAIN teams : \E r \in Threads :
        /\ teams[t].currentFare = Some(0)
        /\ Done(r) /\ claimReq[r].team \in DOMAIN teams \ {t}
        /\ claimReq[r].idx = 0 /\ claimReq[r].message = "Fare already claimed"

\* C29: for each team there is at most one active fare whose claimedBy is
\* that team.
C29_OneFarePerTeam ==
    \A t \in TeamNums :
        Cardinality({i \in ActiveIdx(fares) : fares[i].claimedBy = Some(t)}) <= 1

----------------------------------------------------------------------------
(* Claims about the ledger the driver builds (SpecLedger) *)

\* C27: the endpoints of the active fares are pairwise distinct: no point is
\* the src or dest of two active fares, and no active fare has src = dest.
C27_DistinctEndpoints ==
    /\ \A i \in ActiveIdx(fares) : fares[i].src # fares[i].dest
    /\ \A i \in ActiveIdx(fares) : \A j \in ActiveIdx(fares) \ {i} :
          {fares[i].src, fares[i].dest} \cap {fares[j].src, fares[j].dest} = {}

\* two fares are active at once, one of them claimed
C27_Witness ==
    /\ Cardinality(ActiveIdx(fares)) = 2
    /\ \E i \in ActiveIdx(fares) : fares[i].claimedBy # None

\* C28: the number of active fares never exceeds the target count.
C28_ActiveWithinTarget == Cardinality(ActiveIdx(fares)) <= cfg.target

\* with a target of 1, a fare has lapsed and a tick has put one new active
\* fare in its place: the ledger is at its target again
C28_Witness ==
    /\ cfg.target = 1
    /\ Len(fares) = 2 /\ ~fares[1].isActive /\ fares[2].isActive

----------------------------------------------------------------------------
(* Claims about requests for a team that is being removed (SpecTraffic) *)

\* C26: no handler faults on a team removed between its membership test and
\* its use: no status poll, position query or position update ends with a
\* KeyError.
C26_NoFaultOnRemovedTeam ==
    /\ statusReq.exc # "KeyError"
    /\ resp.err # "KeyError"
    /\ posReq.exc # "KeyError"

----------------------------------------------------------------------------
(* Claims about the client's authentication (SpecRound) *)

\* C30: in LAB or HOME mode the key str(n) of a client with team number n
\* resolves to n on the server: every stored status has team = n, so
\* auth_success() is true, and its inMatch, so is_in_match(), is whether n
\* was in the roster when the reply was built.
C30_AuthRoundTrip ==
    /\ [][serve_status_begin(Str(client_team)) => statusReq'.team = client_team]_vars
    /\ [][serve_status_snapshot
          => /\ matchData'[1].team = client_team
             /\ matchData'[1].inMatch = (client_team \in DOMAIN teams)]_vars
    /\ [](is_connected => auth_success)
    /\ [][serve_status_snapshot => (is_in_match' <=> client_team \in DOMAIN teams)]_vars

\* the client holds a status that authenticated it and shows it in the
\* match, polled while its team was in the roster; the team has since been
\* removed
C30_Witness ==
    /\ is_connected /\ auth_success /\ is_in_match
    /\ client_team \notin DOMAIN teams
    /\ statusReq.pc = "idle"

====
